---- MODULE Spec2Model ----
(***************************************************************************)
(* Model of cuv's module-aware dependency resolver,                        *)
(* src/src/cuv/dep_resolver.py: resolve_dependencies(json_deps,            *)
(* external_modules).  One call is modelled as a sequence of steps: graph  *)
(* building, one elimination step per module node, the start of the sort,  *)
(* one step per node popped by Kahn's loop, and the final raise or the     *)
(* task list.                                                              *)
(*                                                                         *)
(* Python dicts keep insertion order, so the keys of `graph` are a         *)
(* sequence (graph_keys).  Python sets of Node objects iterate in the      *)
(* order of the hashes of their strings, which CPython randomises per      *)
(* process: every iteration over a set is a nondeterministic choice of one *)
(* of its orders.                                                          *)
(***************************************************************************)
EXTENDS Integers, Sequences, FiniteSets, TLC

\* ------------------------------------------------------------------ inputs
\* The number of provides and requires entries in one description, all
\* rules together.
MaxEntries == 4

\* The primary outputs of the rules of a description, in rule order: a
\* description of n rules has the first n of them.  "X" is also the name of
\* a module.
PrimaryOutputs == <<"a", "X", "b">>
\* The module names a rule provides or requires; "std" is one of the
\* built-in external modules.
ModuleNames == {"X", "Y", "std"}

\* external_modules = None (the default of the parameter)
NoneArg == [is_none |-> TRUE, names |-> {}]
\* external_modules = a set of names
SetArg(S) == [is_none |-> FALSE, names |-> S]
\* The values the caller passes as external_modules.
ExternalChoices == {NoneArg, SetArg({"Y"})}

\* ------------------------------------------------------------ the program
std_modules == {"iostream", "std"}

\* lines 35-37: the key of a file node is "file:" + name
FileNode(name) == [kind |-> "file", name |-> name]

\* ModuleNode with the key of a file node.
ModuleNodeUnqualified(name) == [kind |-> "file", name |-> name]

\* lines 39-41: the key of a module node is "module:" + name
ModuleNode(name) == [kind |-> "module", name |-> name]
isModuleNode(n) == n.kind = "module"

Range(s) == {s[i] : i \in 1..Len(s)}

\* All the orders a set can be iterated in.
Orders(S) == {s \in [1..Cardinality(S) -> S] : \A i, j \in 1..Cardinality(S) : s[i] = s[j] => i = j}

\* ExternalModules without the caller's names.
ExternalModulesDefaultOnly(arg) == std_modules

\* ExternalModules that takes the caller's set as a replacement of the
\* built-in one when it names a built-in module.
ExternalModulesEitherOr(arg) ==
    IF arg.is_none \/ arg.names \cap std_modules # {} THEN std_modules ELSE arg.names \cup std_modules

\* external_modules after lines 45-48
ExternalModules(arg) == IF arg.is_none THEN std_modules ELSE arg.names \cup std_modules

\* d[k] of a defaultdict(set): the value, the empty set for a missing key
Get(d, k) == IF k \in DOMAIN d THEN d[k] ELSE {}
\* d[k] = v
Put(d, k, v) == [x \in DOMAIN d \cup {k} |-> IF x = k THEN v ELSE d[x]]
\* del d[k]
Del(d, k) == [x \in DOMAIN d \ {k} |-> d[x]]
\* the key order of a dict after a key is (perhaps) inserted
Touch(keys, k) == IF k \in Range(keys) THEN keys ELSE Append(keys, k)
\* the key order of a dict after del d[k]
Remove(keys, k) == SelectSeq(keys, LAMBDA x : x # k)

\* The three dict values threaded through the builder: the key order of
\* graph, graph, reverse_graph.
EmptyGraph == [keys |-> <<>>, graph |-> <<>>, reverse_graph |-> <<>>]

\* AddProvide that keeps the last provider of a module only.
AddProvideLastWins(G, file_node, module_name) ==
    LET mod_node == ModuleNode(module_name)
        keys1 == Touch(G.keys, file_node)
        graph1 == IF file_node \in DOMAIN G.graph THEN G.graph ELSE Put(G.graph, file_node, {})
    IN [keys |-> Touch(keys1, mod_node),
        graph |-> Put(graph1, mod_node, {file_node}),
        reverse_graph |-> Put(G.reverse_graph, file_node, Get(G.reverse_graph, file_node) \cup {mod_node})]

\* lines 57-63: one provides entry of a rule
AddProvide(G, file_node, module_name) ==
    LET mod_node == ModuleNode(module_name)
        keys1 == Touch(G.keys, file_node)
        graph1 == IF file_node \in DOMAIN G.graph THEN G.graph ELSE Put(G.graph, file_node, {})
    IN [keys |-> Touch(keys1, mod_node),
        graph |-> Put(graph1, mod_node, Get(graph1, mod_node) \cup {file_node}),
        reverse_graph |-> Put(G.reverse_graph, file_node, Get(G.reverse_graph, file_node) \cup {mod_node})]

\* lines 70-81: one requires entry of a rule
AddRequire(G, file_node, module_name, external_modules) ==
    LET mod_node == ModuleNode(module_name)
        leaf == module_name \in std_modules \/ module_name \in external_modules
        keys1 == IF leaf THEN Touch(G.keys, mod_node) ELSE G.keys
        graph1 == IF leaf THEN Put(G.graph, mod_node, {}) ELSE G.graph
    IN [keys |-> Touch(keys1, file_node),
        graph |-> Put(graph1, file_node, Get(graph1, file_node) \cup {mod_node}),
        reverse_graph |-> Put(G.reverse_graph, mod_node, Get(G.reverse_graph, mod_node) \cup {file_node})]

RECURSIVE ProvidesLoop(_, _, _)
\* line 56: for p in rule.get("provides", [])
ProvidesLoop(G, file_node, provides) ==
    IF provides = <<>> THEN G
    ELSE ProvidesLoop(AddProvide(G, file_node, Head(provides)), file_node, Tail(provides))

RECURSIVE RequiresLoop(_, _, _, _)
\* line 69: for r in rule.get("requires", [])
RequiresLoop(G, file_node, requires, external_modules) ==
    IF requires = <<>> THEN G
    ELSE RequiresLoop(AddRequire(G, file_node, Head(requires), external_modules),
                      file_node, Tail(requires), external_modules)

RECURSIVE FirstStep(_, _)
\* lines 53-63: module node -> the files that provide it
FirstStep(G, rs) ==
    IF rs = <<>> THEN G
    ELSE FirstStep(ProvidesLoop(G, FileNode(Head(rs).primary_output), Head(rs).provides), Tail(rs))

RECURSIVE SecondStep(_, _, _)
\* lines 66-81: file node -> the modules it requires
SecondStep(G, rs, external_modules) ==
    IF rs = <<>> THEN G
    ELSE SecondStep(RequiresLoop(G, FileNode(Head(rs).primary_output), Head(rs).requires, external_modules),
                    Tail(rs), external_modules)

\* lines 45-81
BuildGraph(rs, arg) == SecondStep(FirstStep(EmptyGraph, rs), rs, ExternalModules(arg))

\* ------------------------------------------------------------------ state
VARIABLES rules, external_arg, pc, graph_keys, graph, reverse_graph, module_nodes,
          in_degree, queue, topo_order, task_list, raised, previous, eliminated

\* eliminated is the list of the module nodes the elimination loop has
\* visited so far, in the order of the visits.
vars == <<rules, external_arg, pc, graph_keys, graph, reverse_graph, module_nodes,
          in_degree, queue, topo_order, task_list, raised, previous, eliminated>>

\* One rule of the scanner's description; a missing provides or requires
\* key reads as the empty list (rule.get(..., [])).
Rule(output, provides, requires) ==
    [primary_output |-> output, provides |-> provides, requires |-> requires]

RECURSIVE Sum(_, _)
\* counts[1] + ... + counts[k]
Sum(counts, k) == IF k = 0 THEN 0 ELSE counts[k] + Sum(counts, k - 1)

\* The lengths of the provides and requires lists of n rules (those of rule
\* i at 2i - 1 and 2i), with at most MaxEntries entries together.
EntryCounts(n) == {counts \in [1..(2 * n) -> 0..MaxEntries] : Sum(counts, 2 * n) <= MaxEntries}

\* The k-th of the lists whose lengths are counts, cut from the entries.
Cut(entries, counts, k) == SubSeq(entries, Sum(counts, k - 1) + 1, Sum(counts, k))

\* json_deps["rules"]: n rules, primary_output being the unique key of a
\* rule, with the provides and requires lists cut from the entries.
RuleList(n, counts, entries) ==
    [i \in 1..n |-> Rule(PrimaryOutputs[i], Cut(entries, counts, 2 * i - 1), Cut(entries, counts, 2 * i))]

\* No exception has been raised.
NoError == [type |-> "none", args |-> <<>>]
\* line 129
CycleError == [type |-> "RuntimeError", args |-> <<"Detected cycle in module dependency graph!">>]

\* Contract that replaces the dependencies by the providers.
ContractOverwrite(deps, file_providers, mod_node) == file_providers

\* Contract without the replacement edges.
ContractWithoutProviders(deps, file_providers, mod_node) == deps \ {mod_node}

\* lines 95-100: the dependencies of a user of mod_node after its step
Contract(deps, file_providers, mod_node) == (deps \cup file_providers) \ {mod_node}

\* lines 86-107: one iteration of the elimination loop.  The users and the
\* providers are visited in the order of their sets, which the result does
\* not depend on: every user ends with all the providers and without the
\* module node, every provider with all the users and without it.
EliminateModule(G, mod_node) ==
    LET file_users == Get(G.reverse_graph, mod_node)
        file_providers == Get(G.graph, mod_node)
        graph1 == [n \in DOMAIN G.graph \cup file_users |->
                      IF n \in file_users
                      THEN Contract(Get(G.graph, n), file_providers, mod_node)
                      ELSE G.graph[n]]
        reverse1 == [n \in DOMAIN G.reverse_graph \cup file_providers \cup {mod_node} |->
                        IF n \in file_providers
                        THEN (Get(G.reverse_graph, n) \cup file_users) \ {mod_node}
                        ELSE Get(G.reverse_graph, n)]
    IN [keys |-> Remove(G.keys, mod_node),
        graph |-> Del(graph1, mod_node),
        reverse_graph |-> Del(reverse1, mod_node)]

\* Degree that counts every edge twice.
DegreeCountsTwice(deps) == 2 * Cardinality(deps)

\* Degree that leaves every entry at the default.
DegreeDefault(deps) == 0

\* line 113: in_degree[node] += len(deps), from the default 0
Degree(deps) == Cardinality(deps)

\* Ready one decrement early.
ReadyEarly(degree) == degree <= 1

\* line 125
Ready(degree) == degree = 0

\* CycleTest that only sees an order longer than the table.
CycleTestLonger(order, degrees) == Len(order) > Cardinality(DOMAIN degrees)

\* line 128
CycleTest(order, degrees) == Len(order) # Cardinality(DOMAIN degrees)

\* lines 123-124: in_degree after the neighbours of the popped node are
\* visited; a neighbour without an entry gets one, counted from 0
Decrement(degrees, neighbors) ==
    [n \in DOMAIN degrees \cup neighbors |->
        IF n \in neighbors THEN (IF n \in DOMAIN degrees THEN degrees[n] ELSE 0) - 1
        ELSE degrees[n]]

\* line 135: deps = [d.name for d in deps]
Names(order) == [i \in 1..Len(order) |-> order[i].name]

Init ==
    /\ \E n \in 0..Len(PrimaryOutputs) : \E counts \in EntryCounts(n) :
          \E entries \in [1..Sum(counts, 2 * n) -> ModuleNames] :
             rules = RuleList(n, counts, entries)
    /\ external_arg \in ExternalChoices
    /\ pc = "build"
    /\ graph_keys = <<>>
    /\ graph = <<>>
    /\ reverse_graph = <<>>
    /\ module_nodes = <<>>
    /\ in_degree = <<>>
    /\ queue = <<>>
    /\ topo_order = <<>>
    /\ task_list = <<>>
    /\ raised = NoError
    /\ previous = <<>>
    /\ eliminated = <<>>

\* lines 45-84: both building steps and the list of module nodes
Build ==
    /\ pc = "build"
    /\ \E G \in {BuildGraph(rules, external_arg)} :
          /\ graph_keys' = G.keys
          /\ graph' = G.graph
          /\ reverse_graph' = G.reverse_graph
          /\ module_nodes' = SelectSeq(G.keys, isModuleNode)
    /\ pc' = "eliminate"
    /\ UNCHANGED <<rules, external_arg, in_degree, queue, topo_order, task_list, raised, previous, eliminated>>

\* lines 86-107: the loop body, for the next module node of the list
Eliminate ==
    /\ pc = "eliminate"
    /\ module_nodes # <<>>
    /\ \E G \in {EliminateModule([keys |-> graph_keys, graph |-> graph, reverse_graph |-> reverse_graph],
                                 Head(module_nodes))} :
          /\ graph_keys' = G.keys
          /\ graph' = G.graph
          /\ reverse_graph' = G.reverse_graph
    /\ module_nodes' = Tail(module_nodes)
    /\ eliminated' = Append(eliminated, Head(module_nodes))
    /\ UNCHANGED <<rules, external_arg, pc, in_degree, queue, topo_order, task_list, raised, previous>>

\* lines 111-117: in_degree, in the key order of graph, and the first queue
StartSort ==
    /\ pc = "eliminate"
    /\ module_nodes = <<>>
    /\ in_degree' = [n \in DOMAIN graph |-> Degree(graph[n])]
    /\ queue' = SelectSeq(graph_keys, LAMBDA n : Ready(Degree(graph[n])))
    /\ topo_order' = <<>>
    /\ pc' = "sort"
    /\ UNCHANGED <<rules, external_arg, graph_keys, graph, reverse_graph, module_nodes,
                   task_list, raised, previous, eliminated>>

\* lines 119-126: one iteration of the while loop.  reverse_graph[node] is
\* read through the defaultdict, and its set is visited in one of its orders.
Pop ==
    /\ pc = "sort"
    /\ queue # <<>>
    /\ LET node == Head(queue)
           neighbors == Get(reverse_graph, node)
           degrees == Decrement(in_degree, neighbors)
       IN /\ topo_order' = Append(topo_order, node)
          /\ reverse_graph' = Put(reverse_graph, node, neighbors)
          /\ in_degree' = degrees
          /\ \E order \in Orders(neighbors) :
                queue' = Tail(queue) \o SelectSeq(order, LAMBDA n : Ready(degrees[n]))
    /\ UNCHANGED <<rules, external_arg, pc, graph_keys, graph, module_nodes, task_list, raised, previous,
                   eliminated>>

\* lines 128-129
Raise ==
    /\ pc = "sort"
    /\ queue = <<>>
    /\ CycleTest(topo_order, in_degree)
    /\ raised' = CycleError
    /\ pc' = "done"
    /\ UNCHANGED <<rules, external_arg, graph_keys, graph, reverse_graph, module_nodes,
                   in_degree, queue, topo_order, task_list, previous, eliminated>>

\* lines 131-137: every dependency set is listed in one of its orders
Return ==
    /\ pc = "sort"
    /\ queue = <<>>
    /\ ~CycleTest(topo_order, in_degree)
    /\ \E deps \in [1..Len(topo_order) -> UNION {Orders(Get(graph, n)) : n \in Range(topo_order)}] :
          /\ \A i \in 1..Len(topo_order) : deps[i] \in Orders(Get(graph, topo_order[i]))
          /\ task_list' = [i \in 1..Len(topo_order) |-> <<topo_order[i].name, Names(deps[i])>>]
    /\ pc' = "done"
    /\ UNCHANGED <<rules, external_arg, graph_keys, graph, reverse_graph, module_nodes,
                   in_degree, queue, topo_order, raised, previous, eliminated>>

\* ninja_writer.py line 156: the next build resolves the same description
\* again, in a new process; the outcome of the first run is kept for
\* comparison.
Rerun ==
    /\ pc = "done"
    /\ previous = <<>>
    /\ previous' = <<[raised |-> raised, task_list |-> task_list]>>
    /\ pc' = "build"
    /\ graph_keys' = <<>>
    /\ graph' = <<>>
    /\ reverse_graph' = <<>>
    /\ module_nodes' = <<>>
    /\ in_degree' = <<>>
    /\ queue' = <<>>
    /\ topo_order' = <<>>
    /\ task_list' = <<>>
    /\ raised' = NoError
    /\ eliminated' = <<>>
    /\ UNCHANGED <<rules, external_arg>>

Next == Build \/ Eliminate \/ StartSort \/ Pop \/ Raise \/ Return

Spec == Init /\ [][Next]_vars

NextRerun == Next \/ Rerun

\* Two resolutions of the same description, one after the other.
SpecRerun == Init /\ [][NextRerun]_vars

\* What a resolution leaves behind, whatever the order its sets were
\* visited in: the error, the tasks (each with the set of its
\* dependencies), the dicts.
Outcome ==
    [raised |-> raised,
     tasks |-> {<<task_list[t][1], Range(task_list[t][2])>> : t \in 1..Len(task_list)},
     graph_keys |-> graph_keys, graph |-> graph, reverse_graph |-> reverse_graph,
     in_degree |-> in_degree]

\* The arguments that line 48 must not tell from arg: the empty set for
\* None, the caller's set with one more built-in name otherwise.
SameClassification(arg) ==
    IF arg.is_none THEN {SetArg({})} ELSE {SetArg(arg.names \cup {name}) : name \in std_modules \ arg.names}

\* The caller resolves the same description again with an external set of
\* the same classification; the outcome of the first run is kept for
\* comparison.
Reclassify ==
    /\ pc = "done"
    /\ previous = <<>>
    /\ previous' = <<Outcome>>
    /\ external_arg' \in SameClassification(external_arg)
    /\ pc' = "build"
    /\ graph_keys' = <<>>
    /\ graph' = <<>>
    /\ reverse_graph' = <<>>
    /\ module_nodes' = <<>>
    /\ in_degree' = <<>>
    /\ queue' = <<>>
    /\ topo_order' = <<>>
    /\ task_list' = <<>>
    /\ raised' = NoError
    /\ eliminated' = <<>>
    /\ UNCHANGED rules

NextReclassify == Next \/ Reclassify

\* Two resolutions of the same description with external sets of the same
\* classification.
SpecReclassify == Init /\ [][NextReclassify]_vars

\* The k-th element taken out of a list.
Without(list, k) == SubSeq(list, 1, k - 1) \o SubSeq(list, k + 1, Len(list))

\* lines 86-107: the loop body, for any module node of the list instead of
\* the next one
EliminateAny ==
    /\ pc = "eliminate"
    /\ \E k \in 1..Len(module_nodes) :
          /\ \E G \in {EliminateModule([keys |-> graph_keys, graph |-> graph, reverse_graph |-> reverse_graph],
                                       module_nodes[k])} :
                /\ graph_keys' = G.keys
                /\ graph' = G.graph
                /\ reverse_graph' = G.reverse_graph
          /\ module_nodes' = Without(module_nodes, k)
          /\ eliminated' = Append(eliminated, module_nodes[k])
    /\ UNCHANGED <<rules, external_arg, pc, in_degree, queue, topo_order, task_list, raised, previous>>

NextAnyOrder == Build \/ EliminateAny

\* Graph building and the elimination of the module nodes in any order.
SpecAnyOrder == Init /\ [][NextAnyOrder]_vars

RECURSIVE EliminationLoop(_, _)
\* lines 84-107: the whole loop over the list of module nodes
EliminationLoop(G, nodes) ==
    IF nodes = <<>> THEN G ELSE EliminationLoop(EliminateModule(G, Head(nodes)), Tail(nodes))

\* ------------------------------------------------------------- properties
\* What the description says, read directly from the rules.
RuleIds == 1..Len(rules)
Provided(i) == Range(rules[i].provides)
Required(i) == Range(rules[i].requires)
\* The external set: the built-in names and those of the caller, if any.
External == {"iostream", "std"} \cup external_arg.names
\* File i needs a non-external module that file j provides.
DependsOn(i, j) == \E m \in Required(i) \ External : m \in Provided(j)
Providers(i) == {j \in RuleIds : DependsOn(i, j)}

RECURSIVE Reach(_)
\* The rules reachable from those of S along DependsOn, S included.
Reach(S) ==
    LET next == S \cup UNION {Providers(i) : i \in S}
    IN IF next = S THEN S ELSE Reach(next)

\* Some file depends on itself, directly or through other files.
HasFileCycle == \E i \in RuleIds : i \in Reach(Providers(i))

\* A required module that no rule provides and that is not external.
Dangling(i, m) == m \in Required(i) \ External /\ \A j \in RuleIds : m \notin Provided(j)
HasDangling == \E i \in RuleIds : \E m \in ModuleNames : Dangling(i, m)
\* A required external module that no rule provides.
ExternalLeaf(i, m) == m \in Required(i) \cap External /\ \A j \in RuleIds : m \notin Provided(j)
\* A required external module that a rule provides.
ExternalProvided(i, m) == m \in Required(i) \cap External /\ \E j \in RuleIds : m \in Provided(j)
HasExternalProvided == \E i \in RuleIds : \E m \in ModuleNames : ExternalProvided(i, m)

Done == pc = "done"
Returned == Done /\ raised = NoError
Failed == Done /\ raised # NoError
TaskIds == 1..Len(task_list)
Output(t) == task_list[t][1]
Deps(t) == task_list[t][2]
\* The names of the files rule i depends on.
ProviderOutputs(i) == {rules[j].primary_output : j \in Providers(i)}
\* The task of rule i is the t-th of the list.
TaskOf(i, t) == t \in TaskIds /\ Output(t) = rules[i].primary_output

\* C1 (no forward reference): in a returned task list, every identifier in
\* the dependency list of a task is the output of a task at an earlier
\* position.
NoForwardReference ==
    Returned => \A t \in TaskIds : \A k \in 1..Len(Deps(t)) :
                    \E u \in 1..(t - 1) : Output(u) = Deps(t)[k]

\* C1's case: a returned list of three tasks, one of them with two
\* dependencies.
NoForwardReferenceWitness ==
    Returned /\ Len(task_list) = 3 /\ \E t \in TaskIds : Len(Deps(t)) = 2

\* C2 (completeness): the outputs of a returned task list are exactly the
\* primary outputs of the rules, and a rule with neither provides nor
\* requires has a task with no dependencies.
Completeness ==
    Returned => /\ {Output(t) : t \in TaskIds} = {rules[i].primary_output : i \in RuleIds}
                /\ \A i \in RuleIds : rules[i].provides = <<>> /\ rules[i].requires = <<>> =>
                      \E t \in TaskIds : TaskOf(i, t) /\ Deps(t) = <<>>

\* C3 (cycle rejection): a description whose files depend on each other in
\* a cycle ends with the cycle error and without a task list.
CycleRejection ==
    Done /\ HasFileCycle => raised = CycleError /\ task_list = <<>>

\* C3's case: a resolution has ended on a description in which two
\* different files need each other.
CycleRejectionWitness ==
    Done /\ \E i, j \in RuleIds : i # j /\ DependsOn(i, j) /\ DependsOn(j, i)

\* C4 (cycle report soundness): the cycle error is raised only for a
\* description whose files depend on each other in a cycle.
CycleReportSound ==
    Failed => HasFileCycle

\* C5 (dangling module reference): a requirement of a module nobody
\* provides and that is not external does not make the resolution of an
\* otherwise resolvable description fail, and adds no dependency.
DanglingDropped ==
    Done /\ HasDangling /\ ~HasFileCycle /\ ~HasExternalProvided =>
        /\ Returned
        /\ \A i \in RuleIds : \A t \in TaskIds : TaskOf(i, t) => Range(Deps(t)) = ProviderOutputs(i)

\* C6 (external leaf): a requirement of an external module (a built-in one
\* or one of the caller's) that no rule provides does not make the
\* resolution of an otherwise resolvable description fail, and the task of
\* the requiring file has no dependency from it: its dependencies are the
\* providers of its other modules.
ExternalLeafTreatment ==
    \A i \in RuleIds : \A m \in ModuleNames :
        Done /\ ExternalLeaf(i, m) /\ ~HasFileCycle /\ ~HasDangling /\ ~HasExternalProvided =>
            /\ Returned
            /\ \E t \in TaskIds : TaskOf(i, t) /\ Range(Deps(t)) = ProviderOutputs(i)

\* C6's case: a returned list for a description with a required built-in
\* module and a required module of the caller's set, neither provided, in
\* which the file that requires one of them also has a real dependency.
ExternalLeafTreatmentWitness ==
    /\ Returned
    /\ \E i, j \in RuleIds : ExternalLeaf(i, "std") /\ ExternalLeaf(j, "Y")
    /\ \E i \in RuleIds : \E m \in ModuleNames : ExternalLeaf(i, m) /\ Providers(i) # {}

\* C7 (external classification overrides provides): when an external module
\* is required by one rule and provided by another, the resolution of an otherwise
\* resolvable description returns a task list in which the requirement adds
\* no dependency.
ExternalOverridesProvides ==
    \A i, j \in RuleIds : \A m \in ModuleNames :
        Done /\ i # j /\ m \in Required(i) \cap External /\ m \in Provided(j)
             /\ ~HasFileCycle /\ ~HasDangling =>
            /\ Returned
            /\ \E t \in TaskIds : TaskOf(i, t) /\ Range(Deps(t)) = ProviderOutputs(i)

\* C8 (direct contraction only): in a returned task list the dependencies
\* of a file are exactly the files that provide a non-external module the
\* file itself requires; the providers of its providers are not among them.
DirectContraction ==
    Returned => \A t \in TaskIds : \E i \in RuleIds :
                    TaskOf(i, t) /\ Range(Deps(t)) = ProviderOutputs(i)

\* C8's case: a returned list for a chain of three files, the first needing
\* the second and the second the third, but not the first the third.
DirectContractionWitness ==
    Returned /\ \E i, j, k \in RuleIds :
        /\ DependsOn(i, j) /\ DependsOn(j, k) /\ ~DependsOn(i, k)
        /\ \E t \in TaskIds : TaskOf(i, t) /\ Deps(t) = <<rules[j].primary_output>>

\* C9 (determinism): the second resolution of a description ends as the
\* first did, with the same error or the same task sequence.
Determinism ==
    Done /\ previous # <<>> => previous[1] = [raised |-> raised, task_list |-> task_list]

\* The nodes of the in-degree table that the order does not have.
Unresolved == DOMAIN in_degree \ Range(topo_order)

\* C10 (cycle failure carries the unresolved nodes): the error raised for a
\* cycle among the files has the identifier of every node that could not be
\* placed in the order.
CycleErrorCarriesUnresolved ==
    Failed /\ HasFileCycle => \A n \in Unresolved : n.name \in Range(raised.args)

\* C11 (idempotent classification): a resolution with the caller's set
\* plus a built-in name, or with the empty set instead of no set, ends as
\* the resolution without it did: the same error or the same tasks with
\* the same dependencies, from the same graph.
IdempotentClassification ==
    Done /\ previous # <<>> => previous[1] = Outcome

\* C11's case: the second resolution has returned tasks for a description
\* that requires the built-in module "std" and a module of the caller's
\* set, now passed together with "std".
IdempotentClassificationWitness ==
    /\ Returned /\ previous # <<>> /\ task_list # <<>>
    /\ external_arg = SetArg({"Y", "std"})
    /\ \E i, j \in RuleIds : "std" \in Required(i) /\ "Y" \in Required(j)

\* Rule i lists the non-external module m, which some rule provides, more
\* than once in its requires, and requires no module that nobody provides.
RepeatsRequire(i, m) ==
    /\ \E k, l \in 1..Len(rules[i].requires) : k # l /\ rules[i].requires[k] = m /\ rules[i].requires[l] = m
    /\ m \notin External
    /\ \E j \in RuleIds : m \in Provided(j)
    /\ \A x \in ModuleNames : ~Dangling(i, x)

\* C12 (duplicate requires are not double-counted): a rule that requires a
\* provided module several times starts the sort with one unit of in-degree
\* per providing file; its task lists each provider once, after the
\* provider's own task; and the repetition does not make the resolution of
\* an otherwise resolvable description fail.
DuplicateRequiresCountedOnce ==
    \A i \in RuleIds : \A m \in ModuleNames : RepeatsRequire(i, m) =>
        /\ pc = "sort" /\ topo_order = <<>> =>
              in_degree[FileNode(rules[i].primary_output)] = Cardinality(Providers(i))
        /\ Done /\ ~HasFileCycle /\ ~HasDangling /\ ~HasExternalProvided => Returned
        /\ Returned => \E t \in TaskIds :
              /\ TaskOf(i, t)
              /\ Len(Deps(t)) = Cardinality(Providers(i))
              /\ Range(Deps(t)) = ProviderOutputs(i)
              /\ \A j \in Providers(i) : \E u \in 1..(t - 1) : TaskOf(j, u)

\* C12's case: a returned list for a description in which a rule requires
\* a provided module twice.
DuplicateRequiresCountedOnceWitness ==
    Returned /\ \E i \in RuleIds : \E m \in ModuleNames : RepeatsRequire(i, m)

\* The nodes of the two mappings, keys and members.
GraphNodes ==
    DOMAIN graph \cup DOMAIN reverse_graph
        \cup UNION {graph[n] : n \in DOMAIN graph} \cup UNION {reverse_graph[n] : n \in DOMAIN reverse_graph}

\* The elimination loop has finished.
Eliminated == (pc = "eliminate" /\ module_nodes = <<>>) \/ pc \in {"sort", "done"}

\* C13 (forward/reverse consistency): after graph building, after each
\* elimination step and when the sort starts, B is in forward[A] exactly
\* when A is in reverse[B].
ForwardReverseConsistent ==
    pc = "eliminate" => \A A, B \in GraphNodes :
        (B \in Get(graph, A)) <=> (A \in Get(reverse_graph, B))

\* C14 (file-only graph after elimination): once the elimination loop has
\* finished, no module node is a key or a member of either mapping.
FileOnlyGraph ==
    Eliminated => \A n \in GraphNodes : ~isModuleNode(n)

\* C19 (in-degree bookkeeping during the sort): in every state of the Kahn
\* loop the in-degree table has the keys of the forward mapping, no value
\* is negative, and every value is the number of the node's forward
\* dependencies that the order does not have yet.
InDegreeSound ==
    pc = "sort" =>
        /\ DOMAIN in_degree = DOMAIN graph
        /\ \A n \in DOMAIN in_degree :
              /\ in_degree[n] >= 0
              /\ in_degree[n] = Cardinality(Get(graph, n) \ Range(topo_order))

\* line 84 for the graph of the description
ModuleNodesOfInput == SelectSeq(BuildGraph(rules, external_arg).keys, isModuleNode)

\* C15 (elimination order-independence): when the module nodes have been
\* eliminated, in whatever order, the forward and reverse mappings are those
\* the loop leaves when it takes them in the order of the list.
EliminationOrderIndependent ==
    pc = "eliminate" /\ module_nodes = <<>> =>
        [keys |-> graph_keys, graph |-> graph, reverse_graph |-> reverse_graph]
            = EliminationLoop(BuildGraph(rules, external_arg), ModuleNodesOfInput)

\* C15's case: the module nodes were eliminated in another order than that
\* of the list, and a file is left with two dependencies.
EliminationOrderIndependentWitness ==
    /\ pc = "eliminate" /\ module_nodes = <<>>
    /\ eliminated # ModuleNodesOfInput
    /\ \E n \in DOMAIN graph : Cardinality(graph[n]) = 2 /\ \A d \in graph[n] : ~isModuleNode(d)

\* Exactly one of the two ends, and nothing partial: the cycle error with
\* no task list, or no error with one task for every node of the in-degree
\* table, in the order the nodes were appended.
OneOutcome ==
    Done => \/ raised = CycleError /\ task_list = <<>>
            \/ /\ raised = NoError
               /\ Len(task_list) = Cardinality(DOMAIN in_degree)
               /\ Len(task_list) = Len(topo_order)
               /\ \A t \in TaskIds : Output(t) = topo_order[t].name

\* No node is in the order twice.
AppendedOnce == \A k, l \in 1..Len(topo_order) : topo_order[k] = topo_order[l] => k = l

\* The nodes a description can have: its files and its modules.
NodeCount == Len(PrimaryOutputs) + Cardinality(ModuleNames)

\* A bound on the steps a resolution still has to take: the nodes the sort
\* can still append, the module nodes still to eliminate, the phases left.
Remaining ==
    CASE pc = "build" -> 3 + 2 * NodeCount
      [] pc = "eliminate" -> 2 + NodeCount + Len(module_nodes)
      [] pc = "sort" -> 1 + NodeCount - Len(topo_order)
      [] pc = "done" -> 0

\* C16 (termination with exactly one outcome): every resolution ends, since
\* every step lowers a bound that never goes below zero and a resolution
\* that has not ended always has a next step; it ends with the complete
\* task list or with the cycle error, never with both and never with a
\* partial list; and no node is appended to the order twice.
TerminatesWithOneOutcome ==
    [][/\ Remaining' < Remaining
       /\ Remaining' >= 0
       /\ (~Done => ENABLED Next)'
       /\ OneOutcome'
       /\ AppendedOnce']_vars

\* C16's two cases: a resolution has ended with the error after placing
\* some nodes in the order, or has returned the tasks of three nodes.
TerminatesWithOneOutcomeWitness ==
    \/ Failed /\ topo_order # <<>> /\ HasFileCycle
    \/ Returned /\ Len(task_list) = 3

\* Rule i has the name of the non-external module m as its primary output,
\* requires m, and another rule, not rule i, provides m.
NamedLikeRequired(i, m) ==
    /\ rules[i].primary_output = m
    /\ m \in Required(i) \ External
    /\ m \notin Provided(i)
    /\ \E j \in RuleIds : m \in Provided(j)

\* C17 (kind-qualified node identity): for a rule whose primary output is
\* the name of a module it requires, provided by another rule, the file
\* node stays a key of the graph throughout the elimination of the module
\* nodes and is never one of the eliminated nodes, and the resolution of an
\* otherwise resolvable description neither fails nor lists the file among
\* its own dependencies: its dependencies are its providers.
KindQualifiedIdentity ==
    \A i \in RuleIds : \A m \in ModuleNames :
        NamedLikeRequired(i, m) =>
            /\ pc = "eliminate" =>
                  /\ FileNode(m) \in DOMAIN graph
                  /\ FileNode(m) \notin Range(module_nodes) \cup Range(eliminated)
            /\ Done /\ ~HasFileCycle /\ ~HasDangling /\ ~HasExternalProvided =>
                  /\ Returned
                  /\ \E t \in TaskIds :
                        /\ TaskOf(i, t)
                        /\ Range(Deps(t)) = ProviderOutputs(i)
                        /\ m \notin Range(Deps(t))

\* C17's case: a returned list for a description in which the file "X"
\* requires the module "X" that another file provides.
KindQualifiedIdentityWitness ==
    Returned /\ \E i \in RuleIds : NamedLikeRequired(i, "X")

\* The different rules j and k both provide the non-external module m,
\* which rule i requires.
TwoProviders(i, j, k, m) ==
    j # k /\ m \in Provided(j) /\ m \in Provided(k) /\ m \in Required(i) /\ m \notin External

\* C18 (duplicate providers are united): two rules providing the same
\* non-external module do not make the resolution of an otherwise resolvable
\* description fail, and the task of every rule that requires the module
\* lists both files, after the tasks of both.
DuplicateProvidersUnited ==
    Done /\ (\E i, j, k \in RuleIds : \E m \in ModuleNames : TwoProviders(i, j, k, m)) =>
        /\ ~Returned => HasFileCycle \/ HasDangling \/ HasExternalProvided
        /\ Returned => \A i, j, k \in RuleIds : \A m \in ModuleNames : TwoProviders(i, j, k, m) =>
              \E t \in TaskIds :
                  /\ TaskOf(i, t)
                  /\ {rules[j].primary_output, rules[k].primary_output} \subseteq Range(Deps(t))
                  /\ \E u, v \in 1..(t - 1) : TaskOf(j, u) /\ TaskOf(k, v)

\* C18's case: a returned list for a description in which two files
\* provide a module that a third one requires.
DuplicateProvidersUnitedWitness ==
    Returned /\ \E i, j, k \in RuleIds : \E m \in ModuleNames : TwoProviders(i, j, k, m)
====
